---- MODULE Spec2Model ----
(***************************************************************************)
(* A model of src/nbandit.py: the n-armed bandit environment, the greedy,  *)
(* epsilon-greedy and softmax agents, and Testbed.evaluate.                *)
(*                                                                         *)
(* Numbers.  Rewards and action values are exact rationals <<num, den>>    *)
(* (den > 0, lowest terms).  The random source is a nondeterministic       *)
(* choice: random.random() is a point r/Precision of [0, 1), random.gauss  *)
(* an integer of a small set.  The softmax probabilities are rounded       *)
(* to the grid of 1/Precision, as the float division of the code rounds    *)
(* them to the grid of doubles.                                            *)
(*                                                                         *)
(* Python lists are functions on 0..n-1.                                   *)
(***************************************************************************)
EXTENDS Integers, Sequences, FiniteSets, TLC

\* ------------------------------------------------------------------ bounds
\* random.random() yields r/Precision, r in 0..Precision-1; probabilities
\* are rounded to multiples of 1/Precision.
Precision == 10
\* the longest episode_length evaluate is called with
MaxLen == 2
\* the numbers of episodes of the short runs are 1..MaxShort
MaxShort == 2
\* the most steps (num_episodes * episode_length) of a short run
MaxSteps == 4
\* the most calls made on the objects of SpecLearn and SpecPair
MaxCalls == 3
\* the most actions of the agents and bandits of SpecAct, SpecLearn, SpecPair
MaxActions == 3

\* ------------------------------------------------------- program constants
\* the periodic report of evaluate: episode % 100 == 0
ReportEvery == 100

\* ------------------------------------------------------------- rationals
Abs(x) == IF x < 0 THEN -x ELSE x

RECURSIVE Gcd(_, _)
Gcd(a, b) == IF b = 0 THEN a ELSE Gcd(b, a % b)

\* the rational n/d in lowest terms, d # 0
Rat(n, d) ==
  LET g == Gcd(Abs(n), Abs(d))
      s == IF d < 0 THEN -1 ELSE 1
  IN  <<(s * n) \div g, (s * d) \div g>>

RInt(n) == <<n, 1>>
RAdd(x, y) == Rat(x[1] * y[2] + y[1] * x[2], x[2] * y[2])
RSub(x, y) == Rat(x[1] * y[2] - y[1] * x[2], x[2] * y[2])
RMul(x, y) == Rat(x[1] * y[1], x[2] * y[2])
RLess(x, y) == x[1] * y[2] < y[1] * x[2]

\* len(list) of a Python list held as a function on 0..n-1
Len0(f) == Cardinality(DOMAIN f)

\* what a call does: return a value or raise
Ret(v) == [tag |-> "return", val |-> v, exc |-> ""]
Raise(e) == [tag |-> "raise", val |-> <<>>, exc |-> e]

\* a Python value that is an int or None
PyInt(i) == [none |-> FALSE, int |-> i]
PyNone == [none |-> TRUE, int |-> 0]

\* --------------------------------------------------------------- Bandit
\* Bandit.__init__(rewards, noise_std)
Bandit(rewards, noise_std) ==
  [rewards |-> rewards, n |-> Len0(rewards), noise_std |-> noise_std]

\* Bandit.available_actions(): range(self.n)
available_actions(b) == 0 .. (b.n - 1)

\* the values random.gauss(0, sigma) is drawn from: 0 when sigma = 0
Gauss(sigma) == {z * sigma : z \in {-1, 0, 1}}

\* Bandit.act with the last action out of range (mutant of BanditAct)
BanditAct_OffByOne(b, action, g) ==
  IF action.none THEN Raise("TypeError")
  ELSE IF action.int \in 0 .. (b.n - 2)
    THEN Ret(b.rewards[action.int] + g)
  ELSE IF action.int \in (-b.n) .. -1
    THEN Ret(b.rewards[b.n + action.int] + g)
  ELSE Raise("IndexError")

\* Bandit.act checking 0 <= action < n (mutant of BanditAct)
BanditAct_NoWrap(b, action, g) ==
  IF action.none THEN Raise("TypeError")
  ELSE IF action.int \in 0 .. (b.n - 1)
    THEN Ret(b.rewards[action.int] + g)
  ELSE Raise("IndexError")

\* Bandit.act(action): self.rewards[action] + random.gauss(0, noise_std),
\* g the value gauss returned.  A list index is an int in [-n, n), a
\* negative one counting from the end; None is no index.
BanditAct(b, action, g) ==
  IF action.none THEN Raise("TypeError")
  ELSE IF action.int \in 0 .. (b.n - 1)
    THEN Ret(b.rewards[action.int] + g)
  ELSE IF action.int \in (-b.n) .. -1
    THEN Ret(b.rewards[b.n + action.int] + g)
  ELSE Raise("IndexError")

\* ---------------------------------------------------------------- agents
\* One record shape for the three classes; epsilon (in units of
\* 1/Precision) is read by EpsilonGreedyAgent only, temperature by
\* SoftmaxGreedyAgent only.

\* GreedyAgent.__init__(num_actions)
GreedyAgent(num_actions) ==
  [kind |-> "GreedyAgent",
   Q |-> [a \in 0 .. (num_actions - 1) |-> RInt(0)],
   action_count |-> [a \in 0 .. (num_actions - 1) |-> 1],
   epsilon |-> 0, temperature |-> 0, num_actions |-> num_actions]

\* EpsilonGreedyAgent.__init__(num_actions, epsilon)
EpsilonGreedyAgent(num_actions, epsilon) ==
  [GreedyAgent(num_actions) EXCEPT !.kind = "EpsilonGreedyAgent",
                                   !.epsilon = epsilon]

\* SoftmaxGreedyAgent.__init__(num_actions, temperature)
SoftmaxGreedyAgent(num_actions, temperature) ==
  [GreedyAgent(num_actions) EXCEPT !.kind = "SoftmaxGreedyAgent",
                                   !.temperature = temperature]

\* the reduce with >= for >: the first maximum (mutant of Reduce)
RECURSIVE Reduce_FirstMax(_, _)
Reduce_FirstMax(Q, k) ==
  IF k = 0 THEN 0
  ELSE LET a == Reduce_FirstMax(Q, k - 1)
       IN  IF ~RLess(Q[a], Q[k]) THEN a ELSE k

\* functools.reduce(lambda a, b: a if Q[a] > Q[b] else b, range(k + 1))
RECURSIVE Reduce(_, _)
Reduce(Q, k) ==
  IF k = 0 THEN 0
  ELSE LET a == Reduce(Q, k - 1)
       IN  IF RLess(Q[k], Q[a]) THEN a ELSE k

\* GreedyAgent.act(); reduce of an empty range raises
GreedyAct(agent) ==
  IF Len0(agent.Q) = 0 THEN Raise("TypeError")
  ELSE Ret(PyInt(Reduce(agent.Q, Len0(agent.Q) - 1)))

\* learn counting the reward before it divides (mutant of Learn)
Learn_IncrementFirst(agent, action, reward) ==
  LET q == agent.Q[action]
      c == agent.action_count[action] + 1
  IN  [agent EXCEPT
         !.Q[action] = RAdd(q, RMul(Rat(1, c), RSub(RInt(reward), q))),
         !.action_count[action] = c]

\* GreedyAgent.learn(action, reward), inherited by the other two
Learn(agent, action, reward) ==
  LET q == agent.Q[action]
      c == agent.action_count[action]
  IN  [agent EXCEPT
         !.Q[action] = RAdd(q, RMul(Rat(1, c), RSub(RInt(reward), q))),
         !.action_count[action] = c + 1]

\* act exploring when random.random() <= epsilon (mutant of
\* EpsilonGreedyAct)
EpsilonGreedyAct_LessEq(agent, r, k) ==
  IF r <= agent.epsilon THEN Ret(PyInt(k)) ELSE GreedyAct(agent)

\* EpsilonGreedyAgent.act(): r/Precision is what random.random() returned,
\* k what random.randint(0, num_actions - 1) returns when it is called
EpsilonGreedyAct(agent, r, k) ==
  IF r < agent.epsilon THEN Ret(PyInt(k)) ELSE GreedyAct(agent)

\* a / b rounded to the nearest integer, b > 0
RoundDiv(a, b) == (2 * a + b) \div (2 * b)

\* math.exp in fixed point: 1000 * e^(k/2) for k in -8..8
ExpTable ==
  (-8 :> 18) @@ (-7 :> 30) @@ (-6 :> 50) @@ (-5 :> 82) @@ (-4 :> 135) @@
  (-3 :> 223) @@ (-2 :> 368) @@ (-1 :> 607) @@ (0 :> 1000) @@ (1 :> 1649) @@
  (2 :> 2718) @@ (3 :> 4482) @@ (4 :> 7389) @@ (5 :> 12182) @@
  (6 :> 20086) @@ (7 :> 33115) @@ (8 :> 54598)

\* math.exp(q / temperature), temperature # 0: the quotient rounded to
\* the nearest half
Exp(q, temperature) ==
  LET x == Rat(q[1], q[2] * temperature)
  IN  ExpTable[RoundDiv(2 * x[1], x[2])]

\* base = sum([math.exp(q / temperature) for q in self.Q])
RECURSIVE SumExp(_, _)
SumExp(agent, k) ==
  IF k < 0 THEN 0
  ELSE SumExp(agent, k - 1) + Exp(agent.Q[k], agent.temperature)

\* p = math.exp(q / temperature) / base, a multiple of 1/Precision
Prob(agent, i) ==
  RoundDiv(Exp(agent.Q[i], agent.temperature) * Precision,
           SumExp(agent, Len0(agent.Q) - 1))

\* the for loop of SoftmaxGreedyAgent.act() from index i on with residual
\* r; the loop ending without a return is a return of None
RECURSIVE Scan(_, _, _)
Scan(agent, i, r) ==
  IF i = Len0(agent.Q) THEN PyNone
  ELSE IF r < Prob(agent, i) THEN PyInt(i)
  ELSE Scan(agent, i + 1, r - Prob(agent, i))

\* act guarding the division, action 0 at temperature 0 (mutant of
\* SoftmaxAct)
SoftmaxAct_ZeroGuard(agent, r) ==
  IF agent.temperature = 0 THEN Ret(PyInt(0)) ELSE Ret(Scan(agent, 0, r))

\* SoftmaxGreedyAgent.act(), r/Precision what random.random() returned
SoftmaxAct(agent, r) ==
  IF agent.temperature = 0 /\ Len0(agent.Q) > 0
    THEN Raise("ZeroDivisionError")
  ELSE Ret(Scan(agent, 0, r))

\* what act() of the agent draws: <<r, k>>, r/Precision from
\* random.random() and k from random.randint(0, num_actions - 1); 0 stands
\* for a number the call does not draw
Draws(agent) ==
  CASE agent.kind = "GreedyAgent" -> {<<0, 0>>}
    [] agent.kind = "EpsilonGreedyAgent" ->
         {d \in (0 .. (Precision - 1)) \X (0 .. (agent.num_actions - 1)) :
            d[1] < agent.epsilon \/ d[2] = 0}
    [] agent.kind = "SoftmaxGreedyAgent" -> (0 .. (Precision - 1)) \X {0}

\* agent.act() of whichever class the agent is
Act(agent, r, k) ==
  CASE agent.kind = "GreedyAgent" -> GreedyAct(agent)
    [] agent.kind = "EpsilonGreedyAgent" -> EpsilonGreedyAct(agent, r, k)
    [] agent.kind = "SoftmaxGreedyAgent" -> SoftmaxAct(agent, r)

\* ------------------------------------------------------ Testbed.evaluate
VARIABLES
  cfg,          \* the Testbed's factories and the arguments of evaluate
  pc,           \* where evaluate is
  attrs,        \* the names of the attributes the Testbed object has
  rewards,      \* self.rewards, when "rewards" \in attrs
  episode,      \* the loop variables of evaluate; -1 before the first
  step,
  idx,
  environment,  \* the locals of evaluate
  agents,
  error,        \* the exception that ended evaluate, and the line raising it
  out,          \* what the periodic report printed
  log,          \* history: the calls evaluate made on agents and environment
  unit,         \* the object under test of the unit specifications
  ret,          \* what the last call on it did
  ncalls        \* the number of calls made on it

hvars == <<cfg, pc, attrs, rewards, episode, step, idx, environment, agents,
           error, out, log>>
uvars == <<unit, ret, ncalls>>
vars == <<cfg, pc, attrs, rewards, episode, step, idx, environment, agents,
          error, out, log, unit, ret, ncalls>>

\* a Python list (0-based) of the elements of a sequence
List(s) == [i \in 0 .. (Len(s) - 1) |-> s[i + 1]]

\* An agent factory f of agent_fns.  f(n) builds an agent of n actions, as
\* the three lambdas of the script do, unless size > 0: then f ignores n
\* and builds an agent of that many actions.
Factory(kind, epsilon, temperature, size) ==
  [kind |-> kind, epsilon |-> epsilon, temperature |-> temperature,
   size |-> size]

\* f(n)
Build(f, n) ==
  LET m == IF f.size > 0 THEN f.size ELSE n
  IN  CASE f.kind = "GreedyAgent" -> GreedyAgent(m)
        [] f.kind = "EpsilonGreedyAgent" -> EpsilonGreedyAgent(m, f.epsilon)
        [] f.kind = "SoftmaxGreedyAgent" ->
             SoftmaxGreedyAgent(m, f.temperature)

\* agents = [f(len(environment.available_actions())) for f in agent_fns]
BuildAgents(agent_fns, env) ==
  [i \in DOMAIN agent_fns |->
     Build(agent_fns[i], Cardinality(available_actions(env)))]

NoError == [exc |-> "", line |-> 0]
NoEnvironment == Bandit(<<>>, 0)

\* one entry of the history: a pass of the loop body for agent i, the
\* calls it made (act, env, learn; the last one raised when the pass
\* failed), the action chosen and the reward received
Pass(i, calls, action, reward) ==
  [episode |-> episode, step |-> step, i |-> i, calls |-> calls,
   action |-> action, reward |-> reward]

Plotting == cfg.show_plot \/ cfg.save_animation

\* lines 106-123: with a plot, the accumulator and the agents of the labels
EvaluateSetup(means) ==
  /\ pc = "start"
  /\ pc' = "loop"
  /\ IF Plotting
       THEN /\ attrs' = attrs \cup {"rewards", "fig", "lines"}
            /\ rewards' = [i \in DOMAIN cfg.agent_fns |->
                             [t \in 0 .. (cfg.episode_length - 1) |-> RInt(0)]]
            /\ environment' = Bandit(means, cfg.noise_std)
            /\ agents' = BuildAgents(cfg.agent_fns, environment')
       ELSE UNCHANGED <<attrs, rewards, environment, agents>>
  /\ UNCHANGED <<cfg, episode, step, idx, error, out, log, uvars>>

\* the loop building the agents in the first episode only (mutant of
\* EpisodeStart)
EpisodeStart_KeepAgents(means) ==
  /\ pc = "loop"
  /\ episode + 1 < cfg.num_episodes
  /\ episode' = episode + 1
  /\ environment' = Bandit(means, cfg.noise_std)
  /\ agents' = IF episode >= 0 THEN agents
               ELSE BuildAgents(cfg.agent_fns, environment')
  /\ step' = 0
  /\ idx' = 0
  /\ pc' = IF cfg.episode_length > 0 THEN "step" ELSE "episode_end"
  /\ UNCHANGED <<cfg, attrs, rewards, error, out, log, uvars>>

\* lines 124-127: the next episode's environment and agents
EpisodeStart(means) ==
  /\ pc = "loop"
  /\ episode + 1 < cfg.num_episodes
  /\ episode' = episode + 1
  /\ environment' = Bandit(means, cfg.noise_std)
  /\ agents' = BuildAgents(cfg.agent_fns, environment')
  /\ step' = 0
  /\ idx' = 0
  /\ pc' = IF cfg.episode_length > 0 THEN "step" ELSE "episode_end"
  /\ UNCHANGED <<cfg, attrs, rewards, error, out, log, uvars>>

\* lines 135-136: self.rewards[i][step] += 1.0 / (episode + 1) * (reward - ..)
Accumulate(rw, i, t, e, reward) ==
  [rw EXCEPT ![i][t] =
     RAdd(@, RMul(Rat(1, e + 1), RSub(RInt(reward), @)))]

\* lines 128-129: the next (step, i) of the two inner loops
Advance ==
  IF idx + 1 < Len0(agents)
    THEN /\ idx' = idx + 1
         /\ UNCHANGED <<step, pc>>
  ELSE /\ idx' = 0
       /\ IF step + 1 < cfg.episode_length
            THEN step' = step + 1 /\ pc' = pc
            ELSE step' = step /\ pc' = "episode_end"

\* lines 130-136: one pass of the loop body, for agent idx at this step
AgentStep(r, k, g) ==
  /\ pc = "step"
  /\ LET agent == agents[idx]
         a == Act(agent, r, k)
         e == BanditAct(environment, a.val, g)
     IN  IF a.tag = "raise"
           THEN /\ pc' = "failed"
                /\ error' = [exc |-> a.exc, line |-> 86]
                /\ log' = Append(log, Pass(idx, {"act"}, PyNone, 0))
                /\ UNCHANGED <<agents, rewards, step, idx>>
         ELSE IF e.tag = "raise"
           THEN /\ pc' = "failed"
                /\ error' = [exc |-> e.exc, line |-> 35]
                /\ log' = Append(log, Pass(idx, {"act", "env"}, a.val, 0))
                /\ UNCHANGED <<agents, rewards, step, idx>>
         ELSE /\ agents' = [agents EXCEPT
                              ![idx] = Learn(agent, a.val.int, e.val)]
              /\ rewards' = IF Plotting
                              THEN Accumulate(rewards, idx, step, episode,
                                              e.val)
                              ELSE rewards
              /\ log' = Append(log, Pass(idx, {"act", "env", "learn"},
                                          a.val, e.val))
              /\ error' = error
              /\ Advance
  /\ UNCHANGED <<cfg, attrs, episode, environment, out, uvars>>

\* lines 138-150: the redraw changes nothing of the Testbed; the report
\* reads self.rewards
EpisodeEnd ==
  /\ pc = "episode_end"
  /\ IF episode # 0 /\ episode % ReportEvery = 0
       THEN IF "rewards" \in attrs
              THEN /\ out' = Append(out,
                        <<episode,
                          [i \in DOMAIN rewards |->
                             rewards[i][Len0(rewards[i]) - 1]]>>)
                   /\ pc' = "loop"
                   /\ error' = error
              ELSE /\ pc' = "failed"
                   /\ error' = [exc |-> "AttributeError", line |-> 148]
                   /\ out' = out
       ELSE /\ pc' = "loop"
            /\ UNCHANGED <<out, error>>
  /\ UNCHANGED <<cfg, attrs, rewards, episode, step, idx, environment,
                 agents, log, uvars>>

\* lines 152-157: after the last episode
Teardown ==
  /\ pc = "loop"
  /\ episode + 1 >= cfg.num_episodes
  /\ pc' = "done"
  /\ UNCHANGED <<cfg, attrs, rewards, episode, step, idx, environment,
                 agents, error, out, log, uvars>>

\* ------------------------------------------------- the calls of evaluate
\* the agent factories: those of the script (lines 162-164, epsilon 0.1 and
\* a positive temperature), and ones with other parameters and sizes
FGreedy == Factory("GreedyAgent", 0, 0, 0)
FEpsilon(epsilon) == Factory("EpsilonGreedyAgent", epsilon, 0, 0)
FSoftmax(temperature) == Factory("SoftmaxGreedyAgent", 0, temperature, 0)
Sized(f, size) == [f EXCEPT !.size = size]

\* what evaluate runs on: the agent factories, the reward lists the
\* environment factory may draw, the noise of its bandits
Scenario(agent_fns, means, noise_std) ==
  [agent_fns |-> List(agent_fns), means |-> means, noise_std |-> noise_std]

L01 == List(<<0, 1>>)
L10 == List(<<1, 0>>)
L101 == List(<<1, 0, 1>>)

Scenarios ==
  { \* valid parameters, agents sized by the environment
    Scenario(<<FGreedy>>, {L01}, 1),
    Scenario(<<FGreedy, FEpsilon(1)>>, {L01, L10}, 0),
    Scenario(<<FGreedy, FEpsilon(1), FSoftmax(1)>>, {L01}, 0),
    Scenario(<<FSoftmax(2)>>, {L101}, 0),
    Scenario(<<FEpsilon(0)>>, {L01}, 1),
    Scenario(<<FEpsilon(Precision)>>, {L101}, 0),
    \* epsilon outside [0, 1], temperature <= 0
    Scenario(<<FEpsilon(-1)>>, {L01}, 0),
    Scenario(<<FEpsilon(2 * Precision)>>, {L01}, 0),
    Scenario(<<FSoftmax(0)>>, {L01}, 0),
    Scenario(<<FEpsilon(-1), FSoftmax(0)>>, {L01}, 0),
    Scenario(<<FSoftmax(-1)>>, {L01}, 0),
    \* agents smaller or larger than the environment
    Scenario(<<Sized(FGreedy, 1)>>, {L01}, 0),
    Scenario(<<Sized(FEpsilon(Precision), 2), FGreedy>>, {L101}, 0),
    Scenario(<<Sized(FGreedy, 3)>>, {L01}, 0),
    Scenario(<<Sized(FGreedy, 1), Sized(FEpsilon(Precision), 3)>>,
             {L01}, 0) }

\* (num_episodes, episode_length) of the short runs
Shapes ==
  {s \in (1 .. MaxShort) \X (1 .. MaxLen) : s[1] * s[2] <= MaxSteps}

Call_(shape, show_plot, save_animation, scenario) ==
  [num_episodes |-> shape[1], episode_length |-> shape[2],
   show_plot |-> show_plot, save_animation |-> save_animation,
   agent_fns |-> scenario.agent_fns, means |-> scenario.means,
   noise_std |-> scenario.noise_std]

\* runs of a few episodes, of every scenario
ShortCalls ==
  {Call_(s, p, a, sc) : s \in Shapes, p \in BOOLEAN, a \in BOOLEAN,
                        sc \in Scenarios}

\* runs that reach the periodic report: a greedy agent, a bandit without
\* noise
LongCalls ==
  {Call_(<<ReportEvery + 1, l>>, p, a, Scenario(<<FGreedy>>, {L01}, 0)) :
     l \in 1 .. MaxLen, p \in BOOLEAN, a \in BOOLEAN}

\* Testbed.__init__ (lines 100-102) and the arguments of the call
Init ==
  /\ cfg \in ShortCalls \cup LongCalls
  /\ pc = "start"
  /\ attrs = {"environment_fn", "agent_fns"}
  /\ rewards = <<>>
  /\ episode = -1
  /\ step = 0
  /\ idx = 0
  /\ environment = NoEnvironment
  /\ agents = <<>>
  /\ error = NoError
  /\ out = <<>>
  /\ log = <<>>
  /\ unit = <<>>
  /\ ret = <<>>
  /\ ncalls = 0

Next ==
  \/ \E means \in cfg.means : EvaluateSetup(means)
  \/ \E means \in cfg.means : EpisodeStart(means)
  \/ /\ pc = "step"
     /\ \E d \in Draws(agents[idx]), g \in Gauss(environment.noise_std) :
          AgentStep(d[1], d[2], g)
  \/ EpisodeEnd
  \/ Teardown

Spec == Init /\ [][Next]_vars

\* ------------------------------------------------ claims about evaluate
\* the passes of the history that ran to the end (act, env, learn)
Learned == {k \in DOMAIN log : "learn" \in log[k].calls}

\* the sum of the rewards agent i received at step t, over log[1..k]
RECURSIVE Received(_, _, _)
Received(i, t, k) ==
  IF k = 0 THEN 0
  ELSE Received(i, t, k - 1)
       + (IF k \in Learned /\ log[k].i = i /\ log[k].step = t
            THEN log[k].reward ELSE 0)

\* the episodes that have run to their end
Completed == IF pc \in {"loop", "done"} THEN episode + 1 ELSE episode

\* C3: whatever show_plot and save_animation are, once evaluate has set
\* up, the Testbed has the accumulator; it is 0 before the first episode
\* and after E >= 1 whole episodes rewards[i][t] is the mean of the
\* rewards agent i received at step t in these E episodes.
C3_AccumulatorIsMean ==
  pc \in {"loop", "done"} =>
    /\ "rewards" \in attrs
    /\ \A i \in DOMAIN cfg.agent_fns, t \in 0 .. (cfg.episode_length - 1) :
         rewards[i][t] = IF Completed = 0 THEN RInt(0)
                         ELSE Rat(Received(i, t, Len(log)), Completed)

\* The same, of the calls with show_plot or save_animation only: what the
\* code does.
C3_AccumulatorIsMeanWhenPlotting == Plotting => C3_AccumulatorIsMean

\* the factories that ignore n and build an agent of another size than
\* the environment's
SizeOf(f, n) == IF f.size > 0 THEN f.size ELSE n
Smaller(f) == \E m \in cfg.means : SizeOf(f, Len0(m)) < Len0(m)
Larger(f) == \E m \in cfg.means : SizeOf(f, Len0(m)) > Len0(m)
Mismatched ==
  \E i \in DOMAIN cfg.agent_fns :
    Smaller(cfg.agent_fns[i]) \/ Larger(cfg.agent_fns[i])

\* C4 as claimed: when an agent's size differs from the environment's
\* number of actions, evaluate makes no act, environment act or learn call
\* and does not run to its end.
C4_FailsBeforeAnyStep == Mismatched => (log = <<>> /\ pc # "done")

\* C4 as amended: evaluate never checks the sizes.  A pass fails with an
\* IndexError only in environment.act, after act returned and before learn,
\* and only for an agent larger than the environment that chose an action
\* >= n; so the passes of a smaller agent never fail on the mismatch.
C4_NoSizeCheck ==
  /\ error.exc # "CONFIGURATION_MISMATCH"
  /\ \A k \in DOMAIN log :
       (log[k].calls = {"act", "env"} /\ error.exc = "IndexError") =>
         /\ k = Len(log)
         /\ pc = "failed"
         /\ Larger(cfg.agent_fns[log[k].i])
         /\ ~log[k].action.none
         /\ log[k].action.int >= environment.n
  /\ (pc = "failed" /\ error.exc = "IndexError") =>
       (log # <<>> /\ log[Len(log)].calls = {"act", "env"})

\* C4's case: a smaller agent has run a whole pass, and a larger one has
\* failed its pass in environment.act.
C4_Witness ==
  /\ pc = "failed"
  /\ error.exc = "IndexError"
  /\ \E k \in Learned : Smaller(cfg.agent_fns[log[k].i])

\* the parameters section 7 of the specification calls invalid
InvalidParameter(f) ==
  \/ f.kind = "SoftmaxGreedyAgent" /\ f.temperature <= 0
  \/ f.kind = "EpsilonGreedyAgent"
       /\ (f.epsilon < 0 \/ f.epsilon > Precision)
ZeroTemperature(f) == f.kind = "SoftmaxGreedyAgent" /\ f.temperature = 0

\* C7 as claimed: an agent with an invalid parameter never gets past a
\* raising first use: none of its passes calls the environment or learn.
C7_RejectedEagerly ==
  \A k \in DOMAIN log :
    InvalidParameter(cfg.agent_fns[log[k].i]) => log[k].calls = {"act"}

\* C7 as amended: no parameter is checked.  A softmax agent of temperature
\* 0 raises ZeroDivisionError in its first act, which ends evaluate before
\* any environment act or learn for it, and nothing else raises that
\* error; the act of an agent with a negative temperature or an epsilon
\* outside [0, 1] returns, and the pass goes on to the environment.
C7_NoParameterCheck ==
  /\ error.exc # "INVALID_PARAMETER"
  /\ \A k \in DOMAIN log :
       LET f == cfg.agent_fns[log[k].i]
       IN  /\ ZeroTemperature(f) =>
                 /\ log[k].calls = {"act"}
                 /\ k = Len(log)
                 /\ pc = "failed"
                 /\ error = [exc |-> "ZeroDivisionError", line |-> 86]
           /\ (InvalidParameter(f) /\ ~ZeroTemperature(f)) =>
                 "env" \in log[k].calls
  /\ (pc = "failed" /\ error.exc = "ZeroDivisionError") =>
       (log # <<>> /\ ZeroTemperature(cfg.agent_fns[log[Len(log)].i]))

\* C7's case: an agent with an epsilon outside [0, 1] has run a whole pass
\* and one of temperature 0 has failed in its first act.
C7_Witness ==
  /\ pc = "failed"
  /\ error.exc = "ZeroDivisionError"
  /\ \E k \in Learned : InvalidParameter(cfg.agent_fns[log[k].i])

\* a call within the configuration surface of the specification
ValidCall ==
  /\ cfg.num_episodes > 0
  /\ cfg.episode_length > 0
  /\ \A i \in DOMAIN cfg.agent_fns :
       ~InvalidParameter(cfg.agent_fns[i]) /\ cfg.agent_fns[i].size = 0

\* the lines of Testbed.evaluate itself
RaisedByEvaluate == error.line >= 104 /\ error.line <= 157

\* C8: a valid call never ends on an error raised by evaluate itself, and
\* at its end every agent has run num_episodes * episode_length passes.
C8_RunsToCompletion ==
  ValidCall =>
    /\ ~(pc = "failed" /\ RaisedByEvaluate)
    /\ pc = "done" =>
         \A i \in DOMAIN cfg.agent_fns :
           Cardinality({k \in Learned : log[k].i = i})
             = cfg.num_episodes * cfg.episode_length

\* C10: the count of action a of agent i is 1 plus the number of learn
\* calls made for a on agent i in the current episode.
C10_CountIsUpdatesOfEpisode ==
  \A i \in DOMAIN agents :
    \A a \in DOMAIN agents[i].action_count :
      agents[i].action_count[a]
        = 1 + Cardinality({k \in Learned :
                             /\ log[k].episode = episode
                             /\ log[k].i = i
                             /\ log[k].action.int = a})

\* C10's case: in a later episode, an agent has learned the action it had
\* learned in an earlier one, beside another agent that learned it too.
C10_Witness ==
  /\ episode >= 1
  /\ \E k1 \in Learned, k2 \in Learned, k3 \in Learned :
       /\ log[k1].episode < episode
       /\ log[k2].episode = episode
       /\ log[k3].episode = episode
       /\ log[k1].i = log[k2].i
       /\ log[k3].i # log[k2].i
       /\ log[k1].action = log[k2].action
       /\ log[k3].action = log[k2].action

\* ------------------------------------------------- the classes on their own
\* evaluate is not running
NoEvaluate ==
  /\ cfg = <<>>
  /\ pc = "unit"
  /\ attrs = {}
  /\ rewards = <<>>
  /\ episode = -1
  /\ step = 0
  /\ idx = 0
  /\ environment = NoEnvironment
  /\ agents = <<>>
  /\ error = NoError
  /\ out = <<>>
  /\ log = <<>>

\* the action values and rewards the objects are made of
QValues == {RInt(0), Rat(1, 2), RInt(1)}
Rewards == {-1, 0, 1, 2}

\* the bandit of n actions with rewards 1, 2, .., n and noise
RampBandit(n) == Bandit([a \in 0 .. (n - 1) |-> a + 1], 1)

\* what a call did: the method, its arguments (0 for one it has not) and
\* the numbers it drew, and its result
Did(op, action, r, k, g, result) ==
  [op |-> op, action |-> action, r |-> r, k |-> k, g |-> g,
   result |-> result]

\* SpecAct: one agent of each class, the three with the same Q of any
\* content, and a bandit; one call of act on one of them (act changes
\* nothing of its object: a second call meets the same object)
InitAct ==
  /\ NoEvaluate
  /\ \E n \in 1 .. MaxActions :
       \E Q \in [0 .. (n - 1) -> QValues] :
         \E epsilon \in {0, 3, Precision}, temperature \in {-1, 0, 1} :
           unit = [greedy |-> [GreedyAgent(n) EXCEPT !.Q = Q],
                   eps |-> [EpsilonGreedyAgent(n, epsilon) EXCEPT !.Q = Q],
                   soft |-> [SoftmaxGreedyAgent(n, temperature)
                               EXCEPT !.Q = Q],
                   bandit |-> RampBandit(n)]
  /\ ret = Did("", 0, 0, 0, 0, Ret(0))
  /\ ncalls = 0

CallGreedyAct ==
  /\ ncalls = 0
  /\ ncalls' = 1
  /\ ret' = Did("GreedyAgent.act", 0, 0, 0, 0, GreedyAct(unit.greedy))
  /\ UNCHANGED <<unit, hvars>>

CallEpsilonGreedyAct(r, k) ==
  /\ ncalls = 0
  /\ ncalls' = 1
  /\ ret' = Did("EpsilonGreedyAgent.act", 0, r, k, 0,
                EpsilonGreedyAct(unit.eps, r, k))
  /\ UNCHANGED <<unit, hvars>>

CallSoftmaxAct(r) ==
  /\ ncalls = 0
  /\ ncalls' = 1
  /\ ret' = Did("SoftmaxGreedyAgent.act", 0, r, 0, 0,
                SoftmaxAct(unit.soft, r))
  /\ UNCHANGED <<unit, hvars>>

CallBanditAct(action, g) ==
  /\ ncalls = 0
  /\ ncalls' = 1
  /\ ret' = Did("Bandit.act", action, 0, 0, g,
                BanditAct(unit.bandit, PyInt(action), g))
  /\ UNCHANGED <<unit, hvars>>

NextAct ==
  \/ CallGreedyAct
  \/ \E d \in Draws(unit.eps) : CallEpsilonGreedyAct(d[1], d[2])
  \/ \E d \in Draws(unit.soft) : CallSoftmaxAct(d[1])
  \/ \E action \in (-unit.bandit.n - 2) .. (unit.bandit.n + 1),
        g \in Gauss(unit.bandit.noise_std) : CallBanditAct(action, g)

SpecAct == InitAct /\ [][NextAct]_vars

\* SpecLearn: a fresh GreedyAgent and the rewards it was fed, by action
InitLearn ==
  /\ NoEvaluate
  /\ \E n \in 1 .. MaxActions :
       unit = [agent |-> GreedyAgent(n),
               fed |-> [a \in 0 .. (n - 1) |-> <<>>]]
  /\ ret = Did("", 0, 0, 0, 0, Ret(0))
  /\ ncalls = 0

CallLearn(action, reward) ==
  /\ ncalls < MaxCalls
  /\ ncalls' = ncalls + 1
  /\ unit' = [agent |-> Learn(unit.agent, action, reward),
              fed |-> [unit.fed EXCEPT ![action] = Append(@, reward)]]
  /\ ret' = Did("GreedyAgent.learn", action, 0, 0, 0, Ret(reward))
  /\ UNCHANGED hvars

NextLearn ==
  \E action \in DOMAIN unit.agent.Q, reward \in Rewards :
    CallLearn(action, reward)

SpecLearn == InitLearn /\ [][NextLearn]_vars

\* SpecPair: a GreedyAgent and an EpsilonGreedyAgent(epsilon=0) with the
\* same Q, on
\* one bandit.  In a step each chooses its action, the bandit rewards it
\* with the same noise for both, and each learns its reward.
InitPair ==
  /\ NoEvaluate
  /\ \E n \in 1 .. MaxActions :
       \E Q \in [0 .. (n - 1) -> {RInt(0), RInt(1)}] :
         unit = [greedy |-> [GreedyAgent(n) EXCEPT !.Q = Q],
                 eps |-> [EpsilonGreedyAgent(n, 0) EXCEPT !.Q = Q],
                 bandit |-> RampBandit(n),
                 chosen |-> <<>>]
  /\ ret = Did("", 0, 0, 0, 0, Ret(0))
  /\ ncalls = 0

PairStep(r, k, g) ==
  /\ ncalls < MaxCalls
  /\ ncalls' = ncalls + 1
  /\ LET ag == GreedyAct(unit.greedy).val
         ae == EpsilonGreedyAct(unit.eps, r, k).val
         rg == BanditAct(unit.bandit, ag, g).val
         re == BanditAct(unit.bandit, ae, g).val
     IN  unit' = [unit EXCEPT
                    !.greedy = Learn(@, ag.int, rg),
                    !.eps = Learn(@, ae.int, re),
                    !.chosen = Append(@, <<ag.int, ae.int>>)]
  /\ ret' = Did("step", 0, r, 0, 0, Ret(0))
  /\ UNCHANGED hvars

NextPair ==
  \E d \in Draws(unit.eps), g \in Gauss(unit.bandit.noise_std) :
    PairStep(d[1], d[2], g)

SpecPair == InitPair /\ [][NextPair]_vars

\* --------------------------------------------- claims about the classes
\* C1: GreedyAgent.act returns an index of maximal Q, the last of them:
\* no Q is greater, every later Q is less; with all Q equal it is n - 1.
C1_GreedyReturnsLastMax ==
  ret.op = "GreedyAgent.act" =>
    LET Q == unit.greedy.Q
        n == Len0(Q)
        res == ret.result
    IN  /\ res.tag = "return"
        /\ ~res.val.none
        /\ res.val.int \in 0 .. (n - 1)
        /\ \A j \in 0 .. (n - 1) : ~RLess(Q[res.val.int], Q[j])
        /\ \A j \in (res.val.int + 1) .. (n - 1) : RLess(Q[j], Q[res.val.int])
        /\ (\A j \in 0 .. (n - 1) : Q[j] = Q[0]) => res.val.int = n - 1

\* C1's case: act has returned the last of several maximal indices, with
\* a smaller Q after it.
C1_Witness ==
  /\ ret.op = "GreedyAgent.act"
  /\ ret.result.val.int < Len0(unit.greedy.Q) - 1
  /\ \E j \in 0 .. (ret.result.val.int - 1) :
       unit.greedy.Q[j] = unit.greedy.Q[ret.result.val.int]

\* r_1 + .. + r_k of a sequence of rewards
RECURSIVE SumSeq(_)
SumSeq(rs) == IF rs = <<>> THEN 0 ELSE rs[1] + SumSeq(Tail(rs))

\* C2: after k >= 1 rewards fed to a fresh GreedyAgent for action a, Q[a]
\* is their arithmetic mean; after the first, Q[a] is that reward.
C2_QIsMean ==
  \A a \in DOMAIN unit.fed :
    LET rs == unit.fed[a]
    IN  /\ Len(rs) >= 1 => unit.agent.Q[a] = Rat(SumSeq(rs), Len(rs))
        /\ Len(rs) = 1 => unit.agent.Q[a] = RInt(rs[1])

\* C2's case: an action has been fed several rewards, not all the same,
\* whose mean is no integer.
C2_Witness ==
  \E a \in DOMAIN unit.fed :
    /\ Len(unit.fed[a]) >= 3
    /\ unit.fed[a][1] # unit.fed[a][2]
    /\ unit.agent.Q[a][2] # 1

\* C5: the act of a SoftmaxGreedyAgent of positive temperature returns an
\* index in [0, n) on every call.
C5_SoftmaxReturnsIndex ==
  (ret.op = "SoftmaxGreedyAgent.act" /\ unit.soft.temperature > 0) =>
    /\ ret.result.tag = "return"
    /\ ~ret.result.val.none
    /\ ret.result.val.int \in 0 .. (Len0(unit.soft.Q) - 1)

\* C6 as claimed: Bandit.act raises for every action outside [0, n) and
\* returns a reward for the others.
C6_RaisesOutsideRange ==
  ret.op = "Bandit.act" =>
    (ret.result.tag = "return" <=> ret.action \in 0 .. (unit.bandit.n - 1))

\* C6 as amended: Bandit.act returns a reward for every action in [-n, n),
\* that of action + n for a negative action, and raises IndexError for
\* every other integer.
C6_RaisesOutsideWrappedRange ==
  ret.op = "Bandit.act" =>
    LET n == unit.bandit.n
    IN  IF ret.action \in (-n) .. (n - 1)
          THEN /\ ret.result.tag = "return"
               /\ ret.result.val
                    = unit.bandit.rewards[(ret.action + n) % n] + ret.g
          ELSE /\ ret.result.tag = "raise"
               /\ ret.result.exc = "IndexError"

\* C6's case: act has returned a reward for a negative action.
C6_Witness ==
  /\ ret.op = "Bandit.act"
  /\ ret.action < 0
  /\ ret.result.tag = "return"

\* C9: an EpsilonGreedyAgent with epsilon = 0 and a GreedyAgent that start
\* with the same Q choose the same action in every step, whatever is
\* drawn, and their Q and counts stay equal.
C9_EpsilonZeroIsGreedy ==
  /\ unit.eps.Q = unit.greedy.Q
  /\ unit.eps.action_count = unit.greedy.action_count
  /\ \A s \in DOMAIN unit.chosen : unit.chosen[s][1] = unit.chosen[s][2]

\* C9's case: the pair has made several steps, choosing different actions
\* over time, the last one with random.random() returning 0.
C9_Witness ==
  /\ Len(unit.chosen) >= 2
  /\ unit.chosen[1] # unit.chosen[2]
  /\ ret.op = "step"
  /\ ret.r = 0
====
